---- MODULE Spec2Model ----
(***************************************************************************)
(* Todo backend REST API (FastAPI + SQLModel): the authentication gate,    *)
(* the token service, the account lifecycle and the identity-scoped task   *)
(* operations, as one state machine.  One action per HTTP handler; each    *)
(* action covers the dependency chain (gate) and the whole handler body.   *)
(*                                                                         *)
(* A handler is an operator of the current state and the request: it       *)
(* gives the response (or the exception raised) and the tables as          *)
(* committed.  The action applies the tables; Respond gives the response   *)
(* the client receives.                                                    *)
(*                                                                         *)
(* Time is counted in whole seconds since the Unix epoch (UTC).            *)
(***************************************************************************)
EXTENDS Integers, FiniteSets, Sequences, TLC

----------------------------------------------------------------------------
(* Bounds of the model *)

\* how many times the clock advances
MaxTicks == 2
\* how many tasks are ever created
MaxTasks == 1
\* how many tokens clients hold at once
MaxTokens == 2

----------------------------------------------------------------------------
(* Program constants and configuration *)

\* timedelta(hours=...) : seconds in one hour
SecondsPerHour == 3600

\* Settings.jwt_expiration_hours default
DefaultJwtExpirationHours == 24

\* Settings.jwt_algorithm default
JwtAlgorithm == "HS256"

\* Settings.secret_key (BETTER_AUTH_SECRET): one process-wide value
SecretKey == "BETTER_AUTH_SECRET"

\* values JWT_EXPIRATION_HOURS is configured with (positive lifetimes)
Lifetimes == {1, DefaultJwtExpirationHours}

\* UTC offsets (hours east of UTC) of the server's local time zone
TzOffsetHours == {-5, 0, 5}

\* status HTTPBearer(auto_error=True) raises when no bearer credential is
\* presented: 403 in FastAPI releases before 0.122, 401 from 0.122 on
BearerMissingStatuses == {401, 403}

\* RegisterRequest.password: min_length, in characters; no maximum
MinPasswordLength == 8

\* bcrypt's limit on the password: 72 bytes
BcryptMaxBytes == 72

\* what bcrypt.hashpw does with a longer password: it hashes the first 72
\* bytes (releases before 5.0) or raises ValueError (5.0 and later)
BcryptLongPassword == {"truncate", "raise"}

----------------------------------------------------------------------------
(* Inputs *)

Emails == {"a@x.io", "b@x.io"}
\* a string of n characters c (code points)
Chars(n, c) == [i \in 1..n |-> c]

\* passwords the register schema accepts: two of the minimum length, and
\* two of 37 characters (73 bytes) that differ in the last character only
ShortPassword == Chars(MinPasswordLength, 97)
OtherPassword == Chars(MinPasswordLength - 1, 97) \o <<98>>
LongPasswordX == Chars(BcryptMaxBytes \div 2, 233) \o <<120>>
LongPasswordY == Chars(BcryptMaxBytes \div 2, 233) \o <<121>>
Passwords == {ShortPassword, OtherPassword, LongPasswordX, LongPasswordY}

\* values bcrypt.gensalt returns: a new one at every call
Salts == {"s1", "s2"}
UserIdPool == <<"u1", "u2">>
UserIds == {UserIdPool[i] : i \in 1..Len(UserIdPool)}
TaskIdPool == <<"t1", "t2", "t3", "t4">>
\* ids requests name: those tasks are created with, and one no task ever has
TaskIds == {TaskIdPool[i] : i \in 1..(MaxTasks + 1)}

\* JSON null / Python None in a string-typed slot
Null == "null"

\* a title of white space only
BlankTitle == " "

VARIABLES
    tz,                     \* server local time zone, hours east of UTC
    jwt_expiration_hours,   \* settings.jwt_expiration_hours
    bcrypt_long_password,   \* behaviour of the installed bcrypt, see BcryptLongPassword
    bearer_missing_status,  \* installed HTTPBearer's status for a missing credential
    now,                    \* the clock: UTC seconds since the epoch
    users,                  \* table users: set of rows
    tasks,                  \* table tasks: set of rows
    allocated,              \* uuid4 values generated so far
    issued,                 \* tokens returned to clients so far
    inflight                \* requests whose handler runs beside others: position and outcome

vars == <<tz, jwt_expiration_hours, bearer_missing_status, bcrypt_long_password,
          now, users, tasks, allocated, issued, inflight>>

----------------------------------------------------------------------------
(* Token service: src/backend/src/auth/jwt.py *)

\* Python None returned where a dict is expected
None == [None |-> TRUE]

\* datetime.timestamp() of a naive datetime: the value is read as LOCAL
\* time, so a naive UTC wall-clock reading u maps to the epoch u - offset
naive_timestamp(u) == u - tz * SecondsPerHour

\* HMAC over the signing input: equal exactly for equal key, algorithm, message
Sign(key, alg, msg) == [key |-> key, alg |-> alg, msg |-> msg]

\* the last of the 43 base64url characters of a 32-byte HMAC-SHA256 tag
\* carries 4 bits of the tag and this many bits that belong to no byte
UnusedSignatureBits == 2

\* base64url of a tag: the characters that spell the tag, and the unused
\* bits of the last character, which the encoder sets to 0
base64url_encode(tag) == [tag |-> tag, unused |-> 0]

\* jose.utils.base64url_decode (base64.urlsafe_b64decode): the bytes; the
\* unused bits are dropped whatever their value
base64url_decode(segment) == segment.tag

\* jose.jwt.encode
jwt_encode(payload, key, algorithm) ==
    [header |-> [alg |-> algorithm, typ |-> "JWT"],
     payload |-> payload,
     signature |-> base64url_encode(Sign(key, algorithm, payload))]

create_access_token(user_id, email) ==
    LET utcnow == now
        expire == utcnow + jwt_expiration_hours * SecondsPerHour
        payload == [sub |-> user_id,
                    email |-> email,
                    iat |-> naive_timestamp(utcnow),
                    exp |-> naive_timestamp(expire)]
    IN jwt_encode(payload, SecretKey, JwtAlgorithm)

\* three well-formed segments
IsJwt(token) == DOMAIN token = {"header", "payload", "signature"}

\* jose _validate_exp: raises ExpiredSignatureError when exp < now
ExpValid(claims) == ("exp" \in DOMAIN claims) => ~(claims.exp < now)

\* variant: the signature segment is not compared
jwt_decode_Unverified(token, key, algorithms) ==
    IF ~IsJwt(token) THEN [raised |-> "JWTError"]
    ELSE IF token.header.alg \notin algorithms THEN [raised |-> "JWTError"]
    ELSE IF ~ExpValid(token.payload) THEN [raised |-> "ExpiredSignatureError"]
    ELSE token.payload

\* jose.jwt.decode: the claims, or the JWTError raised
jwt_decode(token, key, algorithms) ==
    IF ~IsJwt(token) THEN [raised |-> "JWTError"]
    ELSE IF token.header.alg \notin algorithms THEN [raised |-> "JWTError"]
    ELSE IF base64url_decode(token.signature)
                # Sign(key, token.header.alg, token.payload)
        THEN [raised |-> "JWTError"]
    ELSE IF ~ExpValid(token.payload) THEN [raised |-> "ExpiredSignatureError"]
    ELSE token.payload

\* JWTError and its subclasses, caught by verify_token
IsJWTError(r) == "raised" \in DOMAIN r

\* variant: a token is refused once a later one was issued to its subject
verify_token_LatestOnly(token) ==
    LET payload == jwt_decode(token, SecretKey, {JwtAlgorithm})
    IN IF IsJWTError(payload) THEN None
       ELSE IF \E later \in issued :
                   /\ {"sub", "iat"} \subseteq DOMAIN payload
                   /\ later.payload.sub = payload.sub
                   /\ later.payload.iat > payload.iat
            THEN None
       ELSE payload

\* variant: the error jwt.decode raised reaches the caller
verify_token_Propagates(token) == jwt_decode(token, SecretKey, {JwtAlgorithm})

verify_token(token) ==
    LET payload == jwt_decode(token, SecretKey, {JwtAlgorithm})
    IN IF IsJWTError(payload) THEN None ELSE payload

----------------------------------------------------------------------------
(* Error responses: src/backend/src/errors.py *)

\* fastapi.HTTPException; a dict detail is a record [error, message], a
\* string detail is wrapped as [str |-> ...]
HTTPException(status_code, detail) ==
    [raise |-> "HTTPException", status_code |-> status_code, detail |-> detail]

\* any other exception reaching the application boundary
Exception(type) == [raise |-> type]

Raised(x) == "raise" \in DOMAIN x

raise_unauthorized(message) ==
    HTTPException(401, [error |-> "UNAUTHORIZED", message |-> message])

raise_forbidden(message) ==
    HTTPException(403, [error |-> "FORBIDDEN", message |-> message])

raise_not_found(message) ==
    HTTPException(404, [error |-> "NOT_FOUND", message |-> message])

raise_conflict(message) ==
    HTTPException(409, [error |-> "EMAIL_EXISTS", message |-> message])

raise_bad_request(message) ==
    HTTPException(400, [error |-> "VALIDATION_ERROR", message |-> message])

_get_error_code_from_status(status_code) ==
    CASE status_code = 400 -> "VALIDATION_ERROR"
      [] status_code = 401 -> "UNAUTHORIZED"
      [] status_code = 403 -> "FORBIDDEN"
      [] status_code = 404 -> "NOT_FOUND"
      [] status_code = 409 -> "EMAIL_EXISTS"
      [] status_code = 422 -> "VALIDATION_ERROR"
      [] status_code = 500 -> "SERVER_ERROR"
      [] OTHER -> "ERROR"

\* the JSON response sent to the client
Response(status, error, message, data) ==
    [status |-> status, error |-> error, message |-> message, data |-> data]

http_exception_handler(exc) ==
    IF "str" \notin DOMAIN exc.detail
    THEN Response(exc.status_code, exc.detail.error, exc.detail.message, {})
    ELSE Response(exc.status_code,
                  _get_error_code_from_status(exc.status_code),
                  exc.detail.str, {})

\* variant: the exception's type is put into the message
generic_exception_handler_Leaks(exc) ==
    Response(500, "SERVER_ERROR", exc.raise, {})

generic_exception_handler(exc) ==
    Response(500, "SERVER_ERROR", "Something went wrong", {})

\* the application boundary: a handler's return value or the exception it
\* (or one of its dependencies) raised, turned into the response
Respond(result) ==
    IF ~Raised(result) THEN result
    ELSE IF result.raise = "HTTPException" THEN http_exception_handler(result)
    ELSE generic_exception_handler(result)

----------------------------------------------------------------------------
(* Authentication gate: src/backend/src/auth/dependencies.py *)

\* a request without an Authorization header
NoAuthorization == [absent |-> TRUE]

\* Authorization: Bearer <token>
Bearer(token) == [scheme |-> "Bearer", credentials |-> token]

\* security = HTTPBearer(): the credentials, or the HTTPException raised
\* when none are presented (auto_error defaults to True)
security(authorization) ==
    IF authorization = NoAuthorization
    THEN HTTPException(bearer_missing_status, [str |-> "Not authenticated"])
    ELSE authorization

\* Python truth value of an Optional[dict]: None and {} are both falsy
Falsy(payload) == payload = None \/ DOMAIN payload = {}

\* payload.get("sub") is neither None nor ""
HasSubject(payload) == "sub" \in DOMAIN payload /\ payload.sub # ""

\* the trusted identity [user_id |-> ...], or the HTTPException raised
get_current_user(authorization) ==
    LET credentials == security(authorization)
    IN IF Raised(credentials) THEN credentials
       ELSE LET payload == verify_token(credentials.credentials)
            IN IF Falsy(payload)
               THEN raise_unauthorized("Missing or invalid authentication token")
               ELSE IF ~HasSubject(payload)
               THEN raise_unauthorized("Invalid token structure")
               ELSE [user_id |-> payload.sub]

\* HTTPBearer(auto_error=False): the credentials, or None when none are
\* presented
security_optional(authorization) ==
    IF authorization = NoAuthorization THEN None ELSE authorization

\* None when no credentials are presented, the HTTPException raised when
\* the token does not verify, else payload.get("sub"): the subject, or
\* None when the payload has none
get_current_user_optional(authorization) ==
    LET credentials == security_optional(authorization)
    IN IF credentials = None THEN None
       ELSE LET payload == verify_token(credentials.credentials)
            IN IF Falsy(payload)
               THEN raise_unauthorized("Invalid authentication token")
               ELSE IF "sub" \in DOMAIN payload
               THEN [user_id |-> payload.sub]
               ELSE None

----------------------------------------------------------------------------
(* Credential hasher: src/backend/src/auth/password.py *)

\* bcrypt.hashpw: the hash embeds its salt; the digest is a one-way
\* function of salt and password
\* function of salt and the password's first 72 bytes; a longer password is
\* cut or refused, depending on the release
bcrypt_hashpw(password_bytes, salt) ==
    IF Len(password_bytes) <= BcryptMaxBytes
    THEN [salt |-> salt, digest |-> <<salt, password_bytes>>]
    ELSE IF bcrypt_long_password = "raise" THEN Exception("ValueError")
    ELSE [salt |-> salt,
          digest |-> <<salt, SubSeq(password_bytes, 1, BcryptMaxBytes)>>]

\* str.encode('utf-8'): one byte for a code point below 128, two bytes for
\* one below 2048
RECURSIVE utf8(_)
utf8(str) ==
    IF str = <<>> THEN <<>>
    ELSE (IF Head(str) < 128 THEN <<Head(str)>>
          ELSE <<192 + (Head(str) \div 64), 128 + (Head(str) % 64)>>)
         \o utf8(Tail(str))

\* salt is the value bcrypt.gensalt(rounds=12) returned; the hash, or the
\* exception bcrypt raised
hash_password(password, salt) == bcrypt_hashpw(utf8(password), salt)

\* a string in bcrypt's format $2b$<rounds>$<salt><digest>
IsBcryptHash(hashed) == DOMAIN hashed = {"salt", "digest"}

\* bcrypt.checkpw recomputes with the salt embedded in the hash and compares;
\* it raises ValueError for a string that is no bcrypt hash
bcrypt_checkpw(password_bytes, hashed_bytes) ==
    IF ~IsBcryptHash(hashed_bytes) THEN Exception("ValueError")
    ELSE LET computed == bcrypt_hashpw(password_bytes, hashed_bytes.salt)
         IN IF Raised(computed) THEN computed
            ELSE [ok |-> computed = hashed_bytes]

\* try: bcrypt.checkpw(...) except Exception: return False
verify_password(plain_password, hashed_password) ==
    LET checked == bcrypt_checkpw(utf8(plain_password), hashed_password)
    IN IF Raised(checked) THEN FALSE ELSE checked.ok

----------------------------------------------------------------------------
(* Persistence: src/backend/src/models *)

\* default_factory=lambda: str(uuid.uuid4()): a value never generated before
uuid4(pool) == pool[CHOOSE i \in 1..Len(pool) :
                        /\ pool[i] \notin allocated
                        /\ \A j \in 1..(i - 1) : pool[j] \in allocated]

HasFresh(pool) == \E i \in 1..Len(pool) : pool[i] \notin allocated

\* select(User).where(User.email == email).first()
UserByEmail(email) == {u \in users : u.email = email}

\* variant: the lookup filters on the task id alone
OwnedTask_ByIdOnly(task_id, current_user_id) == {t \in tasks : t.id = task_id}

\* select(Task).where(Task.id == task_id, Task.user_id == user_id).first()
OwnedTask(task_id, current_user_id) ==
    {t \in tasks : t.id = task_id /\ t.user_id = current_user_id}

\* variant: the listing has no owner filter
TasksOf_Unfiltered(current_user_id) == tasks

\* select(Task).where(Task.user_id == user_id).all()
TasksOf(current_user_id) == {t \in tasks : t.user_id = current_user_id}

\* NOT NULL columns of table tasks (title: str, is_completed: bool)
CommitFails(task) == task.title = Null

----------------------------------------------------------------------------
(* Schemas: src/backend/src/schemas *)

\* TaskResponse.model_validate(task): the row under the API's field names
TaskResponse(task) ==
    [id |-> task.id,
     title |-> task.title,
     description |-> task.description,
     dueDate |-> task.due_date,
     isCompleted |-> task.is_completed,
     createdAt |-> task.created_at,
     updatedAt |-> task.updated_at,
     userId |-> task.user_id]

\* AuthResponse(user=UserResponse(id, email), token=token)
AuthResponse(status, user, token) ==
    Response(status, "", "",
             {[user |-> [id |-> user.id, email |-> user.email], token |-> token]})

TaskFields == {"title", "description", "due_date", "is_completed"}

\* TaskCreate: the declared fields of the JSON body (aliases dueDate and
\* isCompleted), defaults for the absent ones; unknown keys are dropped
TaskCreate(body) ==
    [title |-> body.title,
     description |-> IF "description" \in DOMAIN body THEN body.description ELSE Null,
     due_date |-> IF "dueDate" \in DOMAIN body THEN body.dueDate ELSE Null,
     is_completed |-> IF "isCompleted" \in DOMAIN body THEN body.isCompleted ELSE FALSE]

\* variant: the schema also declares user_id (alias userId)
TaskUpdate_WithOwner(body) ==
    LET alias(f) == CASE f = "due_date" -> "dueDate"
                      [] f = "is_completed" -> "isCompleted"
                      [] f = "user_id" -> "userId"
                      [] OTHER -> f
    IN [f \in {g \in TaskFields \cup {"user_id"} : alias(g) \in DOMAIN body} |->
           body[alias(f)]]

\* TaskUpdate(...).model_dump(exclude_unset=True): the declared fields
\* the JSON body sets, under their field names; unknown keys are dropped
TaskUpdate(body) ==
    LET alias(f) == CASE f = "due_date" -> "dueDate"
                      [] f = "is_completed" -> "isCompleted"
                      [] OTHER -> f
    IN [f \in {g \in TaskFields : alias(g) \in DOMAIN body} |-> body[alias(f)]]

----------------------------------------------------------------------------
(* Handlers of src/backend/src/routes/tasks.py.  Each operator is the      *)
(* dependency chain plus the handler body: the value returned or the       *)
(* exception raised (result) and the committed table (tasks).              *)

get_tasks(authorization) ==
    LET current_user == get_current_user(authorization)
    IN IF Raised(current_user) THEN [result |-> current_user, tasks |-> tasks]
       ELSE [result |-> Response(200, "", "",
                 {TaskResponse(t) : t \in TasksOf(current_user.user_id)}),
             tasks |-> tasks]

\* variant: look the task up by id, then refuse another owner's with 403
get_task_Forbidden(authorization, task_id) ==
    LET current_user == get_current_user(authorization)
    IN IF Raised(current_user) THEN [result |-> current_user, tasks |-> tasks]
       ELSE LET found == {t \in tasks : t.id = task_id}
            IN IF found = {}
               THEN [result |-> raise_not_found("Task not found"), tasks |-> tasks]
               ELSE IF (CHOOSE t \in found : TRUE).user_id # current_user.user_id
               THEN [result |-> raise_forbidden("Access denied"), tasks |-> tasks]
               ELSE [result |-> Response(200, "", "",
                         {TaskResponse(CHOOSE t \in found : TRUE)}),
                     tasks |-> tasks]

get_task(authorization, task_id) ==
    LET current_user == get_current_user(authorization)
    IN IF Raised(current_user) THEN [result |-> current_user, tasks |-> tasks]
       ELSE LET found == OwnedTask(task_id, current_user.user_id)
            IN IF found = {}
               THEN [result |-> raise_not_found("Task not found"), tasks |-> tasks]
               ELSE [result |-> Response(200, "", "",
                         {TaskResponse(CHOOSE t \in found : TRUE)}),
                     tasks |-> tasks]

\* a blank title: not request.title or not request.title.strip()
IsBlank(title) == title = "" \/ title = BlankTitle

\* variant: an owner named in the body wins over the token's identity
create_task_OwnerFromBody(authorization, body) ==
    LET current_user == get_current_user(authorization)
    IN IF Raised(current_user) THEN [result |-> current_user, tasks |-> tasks]
       ELSE LET request == TaskCreate(body)
            IN IF IsBlank(request.title)
               THEN [result |-> raise_bad_request("Title is required"),
                     tasks |-> tasks]
               ELSE LET new_task == [id |-> uuid4(TaskIdPool),
                                     user_id |-> IF "user_id" \in DOMAIN body
                                                 THEN body.user_id
                                                 ELSE IF "userId" \in DOMAIN body
                                                 THEN body.userId
                                                 ELSE current_user.user_id,
                                     title |-> request.title,
                                     description |-> request.description,
                                     due_date |-> request.due_date,
                                     is_completed |-> request.is_completed,
                                     created_at |-> now,
                                     updated_at |-> now]
                    IN [result |-> Response(201, "", "", {TaskResponse(new_task)}),
                        tasks |-> tasks \cup {new_task}]

create_task(authorization, body) ==
    LET current_user == get_current_user(authorization)
    IN IF Raised(current_user) THEN [result |-> current_user, tasks |-> tasks]
       ELSE LET request == TaskCreate(body)
            IN IF IsBlank(request.title)
               THEN [result |-> raise_bad_request("Title is required"),
                     tasks |-> tasks]
               ELSE LET new_task == [id |-> uuid4(TaskIdPool),
                                     user_id |-> current_user.user_id,
                                     title |-> request.title,
                                     description |-> request.description,
                                     due_date |-> request.due_date,
                                     is_completed |-> request.is_completed,
                                     created_at |-> now,
                                     updated_at |-> now]
                    IN [result |-> Response(201, "", "", {TaskResponse(new_task)}),
                        tasks |-> tasks \cup {new_task}]

\* variant: the optional fields the request leaves out are cleared
update_task_Replaces(authorization, task_id, body) ==
    LET current_user == get_current_user(authorization)
    IN IF Raised(current_user) THEN [result |-> current_user, tasks |-> tasks]
       ELSE LET found == OwnedTask(task_id, current_user.user_id)
            IN IF found = {}
               THEN [result |-> raise_not_found("Task not found"), tasks |-> tasks]
               ELSE LET task == CHOOSE t \in found : TRUE
                        update_data == TaskUpdate(body)
                        updated == [f \in DOMAIN task |->
                                       IF f = "updated_at" THEN now
                                       ELSE IF f \in DOMAIN update_data
                                            THEN update_data[f]
                                            ELSE IF f \in {"description", "due_date"}
                                            THEN Null
                                            ELSE task[f]]
                    IN IF DOMAIN update_data = {}
                       THEN [result |-> raise_bad_request("At least one field required"),
                             tasks |-> tasks]
                       ELSE IF CommitFails(updated)
                       THEN [result |-> Exception("IntegrityError"), tasks |-> tasks]
                       ELSE [result |-> Response(200, "", "", {TaskResponse(updated)}),
                             tasks |-> (tasks \ {task}) \cup {updated}]

\* variant: a request that sets no field is committed like any other
update_task_NoEmptyCheck(authorization, task_id, body) ==
    LET current_user == get_current_user(authorization)
    IN IF Raised(current_user) THEN [result |-> current_user, tasks |-> tasks]
       ELSE LET found == OwnedTask(task_id, current_user.user_id)
            IN IF found = {}
               THEN [result |-> raise_not_found("Task not found"), tasks |-> tasks]
               ELSE LET task == CHOOSE t \in found : TRUE
                        update_data == TaskUpdate(body)
                        updated == [f \in DOMAIN task |->
                                       IF f = "updated_at" THEN now
                                       ELSE IF f \in DOMAIN update_data
                                            THEN update_data[f]
                                            ELSE task[f]]
                    IN IF CommitFails(updated)
                       THEN [result |-> Exception("IntegrityError"), tasks |-> tasks]
                       ELSE [result |-> Response(200, "", "", {TaskResponse(updated)}),
                             tasks |-> (tasks \ {task}) \cup {updated}]

\* variant: the creation time is refreshed along with the modification time
update_task_ResetsCreatedAt(authorization, task_id, body) ==
    LET current_user == get_current_user(authorization)
    IN IF Raised(current_user) THEN [result |-> current_user, tasks |-> tasks]
       ELSE LET found == OwnedTask(task_id, current_user.user_id)
            IN IF found = {}
               THEN [result |-> raise_not_found("Task not found"), tasks |-> tasks]
               ELSE LET task == CHOOSE t \in found : TRUE
                        update_data == TaskUpdate(body)
                        updated == [f \in DOMAIN task |->
                                       IF f \in {"updated_at", "created_at"} THEN now
                                       ELSE IF f \in DOMAIN update_data
                                            THEN update_data[f]
                                            ELSE task[f]]
                    IN IF DOMAIN update_data = {}
                       THEN [result |-> raise_bad_request("At least one field required"),
                             tasks |-> tasks]
                       ELSE IF CommitFails(updated)
                       THEN [result |-> Exception("IntegrityError"), tasks |-> tasks]
                       ELSE [result |-> Response(200, "", "", {TaskResponse(updated)}),
                             tasks |-> (tasks \ {task}) \cup {updated}]

update_task(authorization, task_id, body) ==
    LET current_user == get_current_user(authorization)
    IN IF Raised(current_user) THEN [result |-> current_user, tasks |-> tasks]
       ELSE LET found == OwnedTask(task_id, current_user.user_id)
            IN IF found = {}
               THEN [result |-> raise_not_found("Task not found"), tasks |-> tasks]
               ELSE LET task == CHOOSE t \in found : TRUE
                        update_data == TaskUpdate(body)
                        updated == [f \in DOMAIN task |->
                                       IF f = "updated_at" THEN now
                                       ELSE IF f \in DOMAIN update_data
                                            THEN update_data[f]
                                            ELSE task[f]]
                    IN IF DOMAIN update_data = {}
                       THEN [result |-> raise_bad_request("At least one field required"),
                             tasks |-> tasks]
                       ELSE IF CommitFails(updated)
                       THEN [result |-> Exception("IntegrityError"), tasks |-> tasks]
                       ELSE [result |-> Response(200, "", "", {TaskResponse(updated)}),
                             tasks |-> (tasks \ {task}) \cup {updated}]

delete_task(authorization, task_id) ==
    LET current_user == get_current_user(authorization)
    IN IF Raised(current_user) THEN [result |-> current_user, tasks |-> tasks]
       ELSE LET found == OwnedTask(task_id, current_user.user_id)
            IN IF found = {}
               THEN [result |-> raise_not_found("Task not found"), tasks |-> tasks]
               ELSE [result |-> Response(200, "", "Task deleted successfully", {}),
                     tasks |-> tasks \ found]

----------------------------------------------------------------------------
(* Handlers of src/backend/src/routes/auth.py: the value returned or the   *)
(* exception raised (result), the committed table (users) and the token    *)
(* handed to the client (token, a set: empty when none is issued).         *)

\* variant: no look-up of the email before the insert
register_Unchecked(email, password, salt) ==
    LET password_hash == hash_password(password, salt)
        new_user == [id |-> uuid4(UserIdPool),
                     email |-> email,
                     password_hash |-> password_hash]
        token == create_access_token(new_user.id, new_user.email)
    IN IF Raised(password_hash)
       THEN [result |-> password_hash, users |-> users, token |-> {}]
       ELSE [result |-> AuthResponse(201, new_user, token),
             users |-> users \cup {new_user}, token |-> {token}]

\* variant: registering a known email replaces that user's password
register_ResetsPassword(email, password, salt) ==
    LET found == UserByEmail(email)
        password_hash == hash_password(password, salt)
        new_user == [id |-> IF found = {} THEN uuid4(UserIdPool)
                            ELSE (CHOOSE u \in found : TRUE).id,
                     email |-> email,
                     password_hash |-> password_hash]
        token == create_access_token(new_user.id, new_user.email)
    IN IF Raised(password_hash)
       THEN [result |-> password_hash, users |-> users, token |-> {}]
       ELSE [result |-> AuthResponse(201, new_user, token),
             users |-> (users \ found) \cup {new_user}, token |-> {token}]

register(email, password, salt) ==
    IF UserByEmail(email) # {}
    THEN [result |-> raise_conflict("Email already registered"),
          users |-> users, token |-> {}]
    ELSE LET password_hash == hash_password(password, salt)
             new_user == [id |-> uuid4(UserIdPool),
                          email |-> email,
                          password_hash |-> password_hash]
             token == create_access_token(new_user.id, new_user.email)
         IN IF Raised(password_hash)
            THEN [result |-> password_hash, users |-> users, token |-> {}]
            ELSE [result |-> AuthResponse(201, new_user, token),
                  users |-> users \cup {new_user}, token |-> {token}]

\* variant: an unknown email is answered 404
login_RevealsEmail(email, password) ==
    LET found == UserByEmail(email)
        user == CHOOSE u \in found : TRUE
    IN IF found = {}
       THEN [result |-> raise_not_found("User not found"),
             users |-> users, token |-> {}]
       ELSE IF ~verify_password(password, user.password_hash)
       THEN [result |-> HTTPException(401, [error |-> "INVALID_CREDENTIALS",
                                            message |-> "Invalid email or password"]),
             users |-> users, token |-> {}]
       ELSE LET token == create_access_token(user.id, user.email)
            IN [result |-> AuthResponse(200, user, token),
                users |-> users, token |-> {token}]

\* variant: the token's subject is the email
login_SubjectIsEmail(email, password) ==
    LET found == UserByEmail(email)
        user == CHOOSE u \in found : TRUE
    IN IF found = {} \/ ~verify_password(password, user.password_hash)
       THEN [result |-> HTTPException(401, [error |-> "INVALID_CREDENTIALS",
                                            message |-> "Invalid email or password"]),
             users |-> users, token |-> {}]
       ELSE LET token == create_access_token(user.email, user.email)
            IN [result |-> AuthResponse(200, user, token),
                users |-> users, token |-> {token}]

login(email, password) ==
    LET found == UserByEmail(email)
        user == CHOOSE u \in found : TRUE
    IN IF found = {} \/ ~verify_password(password, user.password_hash)
       THEN [result |-> HTTPException(401, [error |-> "INVALID_CREDENTIALS",
                                            message |-> "Invalid email or password"]),
             users |-> users, token |-> {}]
       ELSE LET token == create_access_token(user.id, user.email)
            IN [result |-> AuthResponse(200, user, token),
                users |-> users, token |-> {token}]

logout(authorization) ==
    LET current_user == get_current_user(authorization)
    IN IF Raised(current_user) THEN current_user
       ELSE Response(200, "", "Logged out successfully", {})

----------------------------------------------------------------------------
(* Requests clients send *)

\* a token whose signature segment was altered
TamperSignature(token) ==
    [token EXCEPT !.signature =
        base64url_encode(Sign("attacker", token.header.alg, token.payload))]

\* a token whose payload was rewritten to another subject, signature kept
TamperSubject(token, sub) == [token EXCEPT !.payload.sub = sub]

\* a string that is no JWT
GarbageToken == [garbage |-> "not-a-jwt"]

\* tokens signed with the shared secret by another issuer, without a
\* usable subject
NoSubToken == jwt_encode([email |-> "a@x.io"], SecretKey, JwtAlgorithm)
EmptySubToken == jwt_encode([sub |-> "", email |-> "a@x.io"], SecretKey, JwtAlgorithm)

CraftedTokens == {GarbageToken, NoSubToken, EmptySubToken}

PresentedTokens ==
    issued
    \cup {TamperSignature(t) : t \in issued}
    \cup {TamperSubject(t, u.id) : t \in issued, u \in {v \in users : TRUE}}
    \cup CraftedTokens

Authorizations == {NoAuthorization} \cup {Bearer(t) : t \in PresentedTokens}

\* JSON bodies of POST /api/tasks
CreateBodies ==
    {[title |-> t] : t \in {"buy milk", BlankTitle}}
    \cup {[title |-> "call bob", description |-> "2 litres",
           dueDate |-> "2026-02-10", isCompleted |-> TRUE, userId |-> u] : u \in UserIds}
    \cup {[title |-> "pay rent", user_id |-> "u2"]}

\* JSON bodies of PUT /api/tasks/{task_id}: no key, an unknown key only,
\* one field, several fields, an explicit null
UpdateBodies ==
    {<<>>,
     [userId |-> "u2"],
     [isCompleted |-> TRUE],
     [title |-> "call bob", userId |-> "u1"],
     [description |-> Null, dueDate |-> "2026-02-10"],
     [title |-> Null]}

----------------------------------------------------------------------------
(* The state machine *)

env == <<tz, jwt_expiration_hours, bearer_missing_status, bcrypt_long_password>>

\* the state after construction: empty tables, no token handed out
Init ==
    /\ tz \in TzOffsetHours
    /\ jwt_expiration_hours \in Lifetimes
    /\ bearer_missing_status \in BearerMissingStatuses
    /\ bcrypt_long_password \in BcryptLongPassword
    /\ now = 0
    /\ users = {}
    /\ tasks = {}
    /\ allocated = {}
    /\ issued = {}
    /\ inflight = {}

\* POST /api/auth/register
Register ==
    \E email \in Emails, password \in Passwords, salt \in Salts :
        LET out == register(email, password, salt)
        IN /\ Cardinality(issued \cup out.token) <= MaxTokens
           /\ users' = out.users
           /\ allocated' = allocated \cup {u.id : u \in out.users}
           /\ issued' = issued \cup out.token
           /\ UNCHANGED <<env, inflight, now, tasks>>

\* POST /api/auth/login
Login ==
    \E email \in Emails, password \in Passwords :
        LET out == login(email, password)
        IN /\ Cardinality(issued \cup out.token) <= MaxTokens
           /\ users' = out.users
           /\ issued' = issued \cup out.token
           /\ UNCHANGED <<env, inflight, now, tasks, allocated>>

\* POST /api/auth/logout
Logout ==
    \E authorization \in Authorizations :
        /\ Respond(logout(authorization)).status \in {200, 401, 403}
        /\ UNCHANGED vars

\* GET /api/tasks
GetTasks ==
    \E authorization \in Authorizations :
        /\ tasks' = get_tasks(authorization).tasks
        /\ UNCHANGED <<env, inflight, now, users, allocated, issued>>

\* GET /api/tasks/{task_id}
GetTask ==
    \E authorization \in Authorizations, task_id \in TaskIds :
        /\ tasks' = get_task(authorization, task_id).tasks
        /\ UNCHANGED <<env, inflight, now, users, allocated, issued>>

\* POST /api/tasks
CreateTask ==
    \E authorization \in Authorizations, body \in CreateBodies :
        /\ Cardinality(allocated \cap TaskIds) < MaxTasks
        /\ LET out == create_task(authorization, body)
           IN /\ tasks' = out.tasks
              /\ allocated' = allocated \cup {t.id : t \in out.tasks}
              /\ UNCHANGED <<env, inflight, now, users, issued>>

\* PUT /api/tasks/{task_id}
UpdateTask ==
    \E authorization \in Authorizations, task_id \in TaskIds, body \in UpdateBodies :
        /\ tasks' = update_task(authorization, task_id, body).tasks
        /\ UNCHANGED <<env, inflight, now, users, allocated, issued>>

\* DELETE /api/tasks/{task_id}
DeleteTask ==
    \E authorization \in Authorizations, task_id \in TaskIds :
        /\ tasks' = delete_task(authorization, task_id).tasks
        /\ UNCHANGED <<env, inflight, now, users, allocated, issued>>

\* how many times the clock has advanced
TickCount ==
    IF now = 0 THEN 0
    ELSE 2 * (now \div SecondsPerHour) - 1 + (now % SecondsPerHour)

\* time passes; the clock is observed at start-up, then at each full hour
\* and one second after it
Tick ==
    /\ TickCount < MaxTicks
    /\ now' = IF now % SecondsPerHour = 0 /\ now # 0
              THEN now + 1
              ELSE now + (SecondsPerHour - (now % SecondsPerHour))
    /\ UNCHANGED <<env, inflight, users, tasks, allocated, issued>>

\* the whole API
Next ==
    \/ Register
    \/ Login
    \/ Logout
    \/ GetTasks
    \/ GetTask
    \/ CreateTask
    \/ UpdateTask
    \/ DeleteTask
    \/ Tick

Spec == Init /\ [][Next]_vars

----------------------------------------------------------------------------
(* The account lifecycle and the gate, under every configuration *)

NextAuth ==
    \/ Register
    \/ Login
    \/ Logout
    \/ GetTasks
    \/ Tick

SpecAuth == Init /\ [][NextAuth]_vars

----------------------------------------------------------------------------
(* The gated endpoints from the state two registrations at start-up       *)
(* leave behind: both users hold the token their registration returned    *)

InitTasks ==
    /\ tz = 0
    /\ jwt_expiration_hours = 1
    /\ bearer_missing_status \in BearerMissingStatuses
    /\ bcrypt_long_password = "truncate"
    /\ now = 0
    /\ users = {[id |-> "u1", email |-> "a@x.io",
                 password_hash |-> hash_password(ShortPassword, "s1")],
                [id |-> "u2", email |-> "b@x.io",
                 password_hash |-> hash_password(OtherPassword, "s1")]}
    /\ tasks = {}
    /\ allocated = {"u1", "u2"}
    /\ issued = {create_access_token(u.id, u.email) : u \in users}
    /\ inflight = {}

NextTasks ==
    \/ Logout
    \/ GetTasks
    \/ GetTask
    \/ CreateTask
    \/ UpdateTask
    \/ DeleteTask
    \/ Tick

SpecTasks == InitTasks /\ [][NextTasks]_vars

----------------------------------------------------------------------------
(* Handlers of several worker processes running beside each other.  A      *)
(* handler reads with its SELECT and writes with session.commit(); the     *)
(* database serialises the statements, and another request's statements    *)
(* may fall between the two.                                               *)

MaxRequests == 2

\* unique=True on users.email: the INSERT of a second row with the same
\* email violates the constraint
UniqueViolation(email) == UserByEmail(email) # {}

\* register up to the existence check: the HTTPException raised, or None
\* when the handler goes on
register_check(email) ==
    IF UserByEmail(email) # {}
    THEN raise_conflict("Email already registered")
    ELSE None

\* register from hash_password to the return: the INSERT is checked by the
\* database against the rows committed by then
register_commit(email, password, salt) ==
    LET password_hash == hash_password(password, salt)
        new_user == [id |-> uuid4(UserIdPool),
                     email |-> email,
                     password_hash |-> password_hash]
        token == create_access_token(new_user.id, new_user.email)
    IN IF Raised(password_hash)
       THEN [result |-> password_hash, users |-> users, token |-> {}]
       ELSE IF UniqueViolation(email)
       THEN [result |-> Exception("IntegrityError"), users |-> users, token |-> {}]
       ELSE [result |-> AuthResponse(201, new_user, token),
             users |-> users \cup {new_user}, token |-> {token}]

\* update_task and delete_task up to the ownership query: the exception
\* raised, or the row loaded into the session
task_select(authorization, task_id) ==
    LET current_user == get_current_user(authorization)
    IN IF Raised(current_user) THEN [result |-> current_user, loaded |-> {}]
       ELSE LET found == OwnedTask(task_id, current_user.user_id)
            IN IF found = {}
               THEN [result |-> raise_not_found("Task not found"), loaded |-> {}]
               ELSE [result |-> None, loaded |-> found]

\* variant: a row that is gone is written again
update_task_commit_Upserts(task, body) ==
    LET update_data == TaskUpdate(body)
        row == {t \in tasks : t.id = task.id}
        current == IF row = {} THEN task ELSE CHOOSE t \in row : TRUE
        pending == [f \in DOMAIN task |->
                       IF f = "updated_at" THEN now
                       ELSE IF f \in DOMAIN update_data THEN update_data[f]
                       ELSE task[f]]
        dirty == {f \in DOMAIN task : pending[f] # task[f]}
        written == [f \in DOMAIN task |->
                       IF f \in dirty THEN pending[f] ELSE current[f]]
    IN IF DOMAIN update_data = {}
       THEN [result |-> raise_bad_request("At least one field required"),
             tasks |-> tasks]
       ELSE IF CommitFails(written)
       THEN [result |-> Exception("IntegrityError"), tasks |-> tasks]
       ELSE [result |-> Response(200, "", "", {TaskResponse(written)}),
             tasks |-> (tasks \ row) \cup {written}]

\* variant: the UPDATE writes every column of the loaded object
update_task_commit_WholeRow(task, body) ==
    LET update_data == TaskUpdate(body)
        row == {t \in tasks : t.id = task.id}
        pending == [f \in DOMAIN task |->
                       IF f = "updated_at" THEN now
                       ELSE IF f \in DOMAIN update_data THEN update_data[f]
                       ELSE task[f]]
    IN IF DOMAIN update_data = {}
       THEN [result |-> raise_bad_request("At least one field required"),
             tasks |-> tasks]
       ELSE IF row = {}
       THEN [result |-> Exception("StaleDataError"), tasks |-> tasks]
       ELSE IF CommitFails(pending)
       THEN [result |-> Exception("IntegrityError"), tasks |-> tasks]
       ELSE [result |-> Response(200, "", "", {TaskResponse(pending)}),
             tasks |-> (tasks \ row) \cup {pending}]

\* update_task from model_dump to the return, for the row loaded earlier.
\* The session writes the attributes whose value differs from the loaded
\* one (UPDATE tasks SET <those> WHERE id = ...): the other columns keep
\* what is committed by then.  An UPDATE that matches no row raises
\* StaleDataError, and refresh of a row that is gone InvalidRequestError.
update_task_commit(task, body) ==
    LET update_data == TaskUpdate(body)
        row == {t \in tasks : t.id = task.id}
        current == CHOOSE t \in row : TRUE
        pending == [f \in DOMAIN task |->
                       IF f = "updated_at" THEN now
                       ELSE IF f \in DOMAIN update_data THEN update_data[f]
                       ELSE task[f]]
        dirty == {f \in DOMAIN task : pending[f] # task[f]}
        written == [f \in DOMAIN task |->
                       IF f \in dirty THEN pending[f] ELSE current[f]]
    IN IF DOMAIN update_data = {}
       THEN [result |-> raise_bad_request("At least one field required"),
             tasks |-> tasks]
       ELSE IF row = {}
       THEN [result |-> Exception(IF dirty = {} THEN "InvalidRequestError"
                                  ELSE "StaleDataError"),
             tasks |-> tasks]
       ELSE IF CommitFails(written)
       THEN [result |-> Exception("IntegrityError"), tasks |-> tasks]
       ELSE [result |-> Response(200, "", "", {TaskResponse(written)}),
             tasks |-> (tasks \ row) \cup {written}]

\* delete_task from session.delete to the return: DELETE FROM tasks WHERE
\* id = ...; a DELETE that matches no row only logs a warning
delete_task_commit(task) ==
    [result |-> Response(200, "", "Task deleted successfully", {}),
     tasks |-> {t \in tasks : t.id # task.id}]

\* the requests sent while others are being handled
RaceAuthorizations == {NoAuthorization} \cup {Bearer(t) : t \in issued}
RaceBodies == {[isCompleted |-> TRUE], [title |-> "call bob", userId |-> "u1"]}

\* a request at its first statement
Begin(op, args, result, loaded) ==
    [rid |-> Cardinality(inflight) + 1,
     op |-> op,
     args |-> args,
     pc |-> IF result = None THEN "selected" ELSE "done",
     loaded |-> loaded,
     response |-> IF result = None THEN None ELSE Respond(result)]

\* a request at its return
Done(r, result) == [r EXCEPT !.pc = "done", !.response = Respond(result)]

Selected(op) == {r \in inflight : r.op = op /\ r.pc = "selected"}

RegisterCheck ==
    \E email \in Emails :
        /\ Cardinality(inflight) < MaxRequests
        /\ inflight' = inflight \cup
               {Begin("register", [email |-> email], register_check(email), {})}
        /\ UNCHANGED <<env, now, users, tasks, allocated, issued>>

RegisterCommit ==
    \E r \in Selected("register") :
        LET out == register_commit(r.args.email, ShortPassword, "s1")
        IN /\ Cardinality(issued \cup out.token) <= MaxTokens
           /\ users' = out.users
           /\ allocated' = allocated \cup {u.id : u \in out.users}
           /\ issued' = issued \cup out.token
           /\ inflight' = (inflight \ {r}) \cup {Done(r, out.result)}
           /\ UNCHANGED <<env, now, tasks>>

UpdateTaskSelect ==
    \E authorization \in RaceAuthorizations, task_id \in TaskIds, body \in RaceBodies :
        LET out == task_select(authorization, task_id)
        IN /\ Cardinality(inflight) < MaxRequests
           /\ inflight' = inflight \cup
                  {Begin("update_task", [task_id |-> task_id, body |-> body],
                         out.result, out.loaded)}
           /\ UNCHANGED <<env, now, users, tasks, allocated, issued>>

UpdateTaskCommit ==
    \E r \in Selected("update_task") :
        LET out == update_task_commit(CHOOSE t \in r.loaded : TRUE, r.args.body)
        IN /\ tasks' = out.tasks
           /\ inflight' = (inflight \ {r}) \cup {Done(r, out.result)}
           /\ UNCHANGED <<env, now, users, allocated, issued>>

DeleteTaskSelect ==
    \E authorization \in RaceAuthorizations, task_id \in TaskIds :
        LET out == task_select(authorization, task_id)
        IN /\ Cardinality(inflight) < MaxRequests
           /\ inflight' = inflight \cup
                  {Begin("delete_task", [task_id |-> task_id], out.result, out.loaded)}
           /\ UNCHANGED <<env, now, users, tasks, allocated, issued>>

DeleteTaskCommit ==
    \E r \in Selected("delete_task") :
        LET out == delete_task_commit(CHOOSE t \in r.loaded : TRUE)
        IN /\ tasks' = out.tasks
           /\ inflight' = (inflight \ {r}) \cup {Done(r, out.result)}
           /\ UNCHANGED <<env, now, users, allocated, issued>>

\* the state one registration and two create_task requests leave behind
InitRace ==
    /\ tz = 0
    /\ jwt_expiration_hours = 1
    /\ bearer_missing_status = 401
    /\ bcrypt_long_password = "truncate"
    /\ now = 0
    /\ users = {[id |-> "u1", email |-> "a@x.io",
                 password_hash |-> hash_password(ShortPassword, "s1")]}
    /\ tasks = {[id |-> "t1", title |-> "buy milk", description |-> Null,
                 due_date |-> Null, is_completed |-> FALSE,
                 created_at |-> 0, updated_at |-> 0, user_id |-> "u1"],
                [id |-> "t2", title |-> "pay rent", description |-> Null,
                 due_date |-> Null, is_completed |-> FALSE,
                 created_at |-> 0, updated_at |-> 0, user_id |-> "u1"]}
    /\ allocated = {"u1", "t1", "t2"}
    /\ issued = {create_access_token(u.id, u.email) : u \in users}
    /\ inflight = {}

NextRace ==
    \/ RegisterCheck
    \/ RegisterCommit
    \/ UpdateTaskSelect
    \/ UpdateTaskCommit
    \/ DeleteTaskSelect
    \/ DeleteTaskCommit

SpecRace == InitRace /\ [][NextRace]_vars

----------------------------------------------------------------------------
(* Properties.  A property quantifies over every request a client can      *)
(* send in the current state and looks at what the handler returns and     *)
(* commits for it.                                                         *)

\* task rows of S whose owner is not U
Foreign(S, U) == {t \in S : t.user_id # U}

\* C1 (owner isolation): a request on task id T by a caller the gate
\* identifies as U returns, modifies or deletes a stored task only if its
\* stored owner is U: the data returned is a task of U, and the rows of
\* every other owner are the same after the request as before it.
C1_OwnerIsolation ==
    \A authorization \in Authorizations :
        LET current_user == get_current_user(authorization)
        IN ~Raised(current_user) =>
           \A task_id \in TaskIds :
               LET U == current_user.user_id
                   got == get_task(authorization, task_id)
                   del == delete_task(authorization, task_id)
                   OwnOnly(result) ==
                       \A r \in Respond(result).data :
                           /\ r.userId = U
                           /\ r.id = task_id
                           /\ \E t \in tasks : t.id = r.id /\ t.user_id = U
               IN /\ OwnOnly(got.result)
                  /\ got.tasks = tasks
                  /\ OwnOnly(del.result)
                  /\ Foreign(del.tasks, U) = Foreign(tasks, U)
                  /\ \A body \in UpdateBodies :
                         LET upd == update_task(authorization, task_id, body)
                         IN /\ OwnOnly(upd.result)
                            /\ Foreign(upd.tasks, U) = Foreign(tasks, U)

\* a caller with a valid token asks to delete another user's stored task
\* and is refused, while the owner's own request deletes it
C1_Witness ==
    \E authorization \in Authorizations, owner \in Authorizations, t \in tasks :
        LET current_user == get_current_user(authorization)
        IN /\ ~Raised(current_user)
           /\ current_user.user_id # t.user_id
           /\ Respond(delete_task(authorization, t.id).result).status = 404
           /\ delete_task(authorization, t.id).tasks = tasks
           /\ delete_task(owner, t.id).tasks = tasks \ {t}

\* the response for a task that is not the caller's
NotFound == Response(404, "NOT_FOUND", "Task not found", {})

StripOwner(body) == [k \in DOMAIN body \ {"userId", "user_id"} |-> body[k]]

\* C3 (create owner): the task create_task stores and returns is owned by
\* the identity the gate derived from the token; an owner named in the
\* request body changes nothing about what is stored or returned.
C3_CreateOwner ==
    \A authorization \in Authorizations, body \in CreateBodies :
        LET current_user == get_current_user(authorization)
            out == create_task(authorization, body)
        IN /\ out = create_task(authorization, StripOwner(body))
           /\ ~Raised(current_user) =>
                  /\ \A t \in out.tasks \ tasks : t.user_id = current_user.user_id
                  /\ \A r \in Respond(out.result).data :
                         r.userId = current_user.user_id
                  /\ ~IsBlank(body.title) => out.tasks # tasks

\* user u1 created a task with a body that names u2 as its owner, and the
\* stored task is u1's
C3_Witness ==
    \E t \in tasks, authorization \in Authorizations :
        /\ t.title = "pay rent"
        /\ t.user_id = "u1"
        /\ get_current_user(authorization) = [user_id |-> "u1"]
        /\ create_task(authorization, [title |-> "pay rent", user_id |-> "u2"]).tasks
               # tasks

\* C4 (listing): for an authenticated caller U, get_tasks succeeds with
\* exactly the stored tasks whose owner is U, each once, under the API's
\* field names; with no such task it succeeds with the empty list; it
\* changes nothing.
C4_ListIsExactlyOwn ==
    \A authorization \in Authorizations :
        LET current_user == get_current_user(authorization)
            out == get_tasks(authorization)
            response == Respond(out.result)
        IN ~Raised(current_user) =>
               /\ response.status = 200
               /\ response.error = ""
               /\ response.data =
                      {TaskResponse(t) :
                           t \in {s \in tasks : s.user_id = current_user.user_id}}
               /\ {r.id : r \in response.data} =
                      {t.id : t \in {s \in tasks : s.user_id = current_user.user_id}}
               /\ out.tasks = tasks

\* one user owns a task and lists it, the other owns none and gets the
\* empty list, not an error and not the first user's task
C4_Witness ==
    \E mine \in Authorizations, theirs \in Authorizations, t \in tasks :
        /\ get_current_user(mine) = [user_id |-> t.user_id]
        /\ ~Raised(get_current_user(theirs))
        /\ get_current_user(theirs).user_id # t.user_id
        /\ Respond(get_tasks(mine).result).data # {}
        /\ Respond(get_tasks(theirs).result) = Response(200, "", "", {})
        /\ tasks = {t}

\* what the gated handlers answer and commit for one authorization: the
\* responses of all six, and whether any of them changes the task table
GatedResponses(authorization) ==
    {Respond(get_tasks(authorization).result), Respond(logout(authorization))}
    \cup {Respond(get_task(authorization, task_id).result) : task_id \in TaskIds}
    \cup {Respond(delete_task(authorization, task_id).result) : task_id \in TaskIds}
    \cup {Respond(create_task(authorization, body).result) : body \in CreateBodies}
    \cup {Respond(update_task(authorization, task_id, body).result) :
              task_id \in TaskIds, body \in UpdateBodies}

GatedLeaveStore(authorization) ==
    /\ get_tasks(authorization).tasks = tasks
    /\ \A task_id \in TaskIds :
           /\ get_task(authorization, task_id).tasks = tasks
           /\ delete_task(authorization, task_id).tasks = tasks
           /\ \A body \in UpdateBodies :
                  update_task(authorization, task_id, body).tasks = tasks
    /\ \A body \in CreateBodies : create_task(authorization, body).tasks = tasks

\* C5 (missing credential): a request to a gated endpoint that presents no
\* bearer credential is answered 401 with code UNAUTHORIZED, returns no
\* data and changes no stored state.
C5_MissingCredentialUnauthorized ==
    /\ \A response \in GatedResponses(NoAuthorization) :
           /\ response.status = 401
           /\ response.error = "UNAUTHORIZED"
           /\ response.data = {}
    /\ GatedLeaveStore(NoAuthorization)

\* a token that is no JWT, one whose signature does not match the secret,
\* one whose expiry time has passed
Malformed(token) == ~IsJwt(token)
BadSignature(token) ==
    /\ IsJwt(token)
    /\ base64url_decode(token.signature)
           # Sign(SecretKey, token.header.alg, token.payload)
Expired(token) ==
    /\ IsJwt(token)
    /\ "exp" \in DOMAIN token.payload
    /\ token.payload.exp < now

\* C6 (invalid token): a request to a gated endpoint whose bearer token is
\* malformed, carries a wrong signature or has expired is answered 401
\* with code UNAUTHORIZED, carries no task or user data and changes no
\* stored state.
C6_InvalidTokenUnauthorized ==
    \A token \in PresentedTokens :
        (Malformed(token) \/ BadSignature(token) \/ Expired(token)) =>
            /\ \A response \in GatedResponses(Bearer(token)) :
                   /\ response.status = 401
                   /\ response.error = "UNAUTHORIZED"
                   /\ response.data = {}
            /\ GatedLeaveStore(Bearer(token))

\* a user's token has expired while a task of theirs is stored, and a
\* token rewritten to name that user does not verify: neither reads nor
\* deletes the task
C6_Witness ==
    \E token \in issued, forged \in PresentedTokens, t \in tasks :
        /\ Expired(token)
        /\ token.payload.sub = t.user_id
        /\ BadSignature(forged)
        /\ forged.payload.sub = t.user_id
        /\ Respond(get_task(Bearer(token), t.id).result).status = 401
        /\ Respond(delete_task(Bearer(forged), t.id).result).status = 401
        /\ delete_task(Bearer(forged), t.id).tasks = tasks

\* C7 (no usable subject): the rejection of a correctly signed, unexpired
\* token without a usable subject is the same response (status, code and
\* message) as the rejection of a missing, invalid or expired token.
C7_NoSubjectIndistinguishable ==
    \A token \in {NoSubToken, EmptySubToken}, other \in Authorizations :
        LET rejection == get_current_user(Bearer(token))
        IN /\ Raised(rejection)
           /\ Raised(get_current_user(other)) =>
                  Respond(rejection) = Respond(get_current_user(other))

\* C8 (token round trip): for every subject and email, the token
\* create_access_token produces verifies at the moment of issuance, and
\* the payload verify_token returns carries that subject and that email.
C8_TokenRoundTrip ==
    \A user_id \in UserIds, email \in Emails :
        LET payload == verify_token(create_access_token(user_id, email))
        IN /\ payload # None
           /\ payload.sub = user_id
           /\ payload.email = email

\* C9 (expiry boundary): a token handed out by the API verifies at every
\* time before its exp claim and is refused at every time at or after it.
C9_ExpiryBoundary ==
    \A token \in issued :
        /\ now < token.payload.exp => verify_token(token) = token.payload
        /\ now >= token.payload.exp => verify_token(token) = None

\* C10 (lifetime): every token create_access_token produces has iat equal
\* to the time of issuance and exp equal to iat plus the configured
\* lifetime in seconds.
C10_ExpiryIsIssuePlusLifetime ==
    \A user_id \in UserIds, email \in Emails :
        LET claims == create_access_token(user_id, email).payload
        IN /\ claims.iat = now
           /\ claims.exp = claims.iat + jwt_expiration_hours * SecondsPerHour

\* C11 (no revocation): in every reachable state, whatever registrations,
\* logins, logouts and other requests came before, every token the API has
\* handed out is accepted by the gate as its own subject as long as the
\* time is before its exp claim; logout with it succeeds and changes that
\* for no token.
C11_NoRevocation ==
    \A token \in issued :
        now < token.payload.exp =>
            /\ get_current_user(Bearer(token)) = [user_id |-> token.payload.sub]
            /\ Respond(logout(Bearer(token))).status = 200

\* time has passed since a token was issued, its user has logged in again
\* and got a later token, and the first token still authenticates and can
\* log out
C11_Witness ==
    \E token \in issued, later \in issued :
        /\ later.payload.sub = token.payload.sub
        /\ later.payload.iat > token.payload.iat
        /\ now < token.payload.exp
        /\ get_current_user(Bearer(token)) = [user_id |-> token.payload.sub]
        /\ Respond(logout(Bearer(token))) =
               Response(200, "", "Logged out successfully", {})

\* the signature segments that differ from a segment in one character:
\* a change to bits of the tag gives another tag, a change to the unused
\* bits of the last character gives the same tag
SingleCharacterChanges(segment) ==
    {[segment EXCEPT !.tag = [changed |-> segment.tag]]}
    \cup {[segment EXCEPT !.unused = bits] :
              bits \in (0..(2^UnusedSignatureBits - 1)) \ {segment.unused}}

\* C12 (token tamper): for every valid token, every change of a single
\* character of its signature segment makes verify_token return None.
C12_TamperedSignatureFails ==
    \A token \in issued :
        verify_token(token) # None =>
            \A segment \in SingleCharacterChanges(token.signature) :
                verify_token([token EXCEPT !.signature = segment]) = None

\* C13 (password round trip): for every password the register schema
\* accepts, hash_password returns a hash without raising, verify_password
\* accepts the password against that hash, and two calls of hash_password
\* (two generated salts) return different hashes.
C13_PasswordRoundTrip ==
    \A password \in Passwords, salt \in Salts, again \in Salts :
        /\ ~Raised(hash_password(password, salt))
        /\ verify_password(password, hash_password(password, salt))
        /\ salt # again =>
               hash_password(password, salt) # hash_password(password, again)

\* C14 (password distinctness): for every two different passwords, also
\* two that differ only after a long common prefix, verify_password rejects
\* the one against the hash of the other.
C14_PasswordDistinctness ==
    \A password \in Passwords, other \in Passwords, salt \in Salts :
        password # other =>
            ~verify_password(password, hash_password(other, salt))

\* strings that are no bcrypt hash: arbitrary text, a hash of another scheme
ForeignHashes == {[text |-> "not-a-hash"], [md5 |-> "5f4dcc3b5aa765d61d8327deb882cf99"]}

C16_DuplicateRegistration ==
    /\ \A email \in Emails, password \in Passwords, salt \in Salts :
           UserByEmail(email) # {} =>
               LET out == register(email, password, salt)
               IN /\ Respond(out.result) =
                         Response(409, "EMAIL_EXISTS", "Email already registered", {})
                  /\ out.users = users
                  /\ out.token = {}
    /\ \A u \in users, v \in users : u.email = v.email => u = v

\* one email is registered and the other is not: a second register with
\* the first is refused, a register with the other would add a user
C16_Witness ==
    \E u \in users, email \in Emails :
        /\ Respond(register(u.email, OtherPassword, "s2").result).status = 409
        /\ register(u.email, OtherPassword, "s2").users = users
        /\ email # u.email
        /\ Respond(register(email, OtherPassword, "s2").result).status = 201
        /\ register(email, OtherPassword, "s2").users # users

\* the response to a failed login
InvalidCredentials ==
    Response(401, "INVALID_CREDENTIALS", "Invalid email or password", {})

\* C17 (login uniform failure): a login with an email that has no user
\* record and a login with a registered email and a wrong password get the
\* same response (401, INVALID_CREDENTIALS, the same message); neither
\* changes the user table or issues a token.
C17_LoginUniformFailure ==
    \A email \in Emails, password \in Passwords :
        LET out == login(email, password)
        IN (\A u \in UserByEmail(email) : ~verify_password(password, u.password_hash))
           => /\ Respond(out.result) = InvalidCredentials
              /\ out.users = users
              /\ out.token = {}

\* one email is registered and the other is not: a login with the unknown
\* email and a login with the known email and a wrong password are answered
\* alike, while the right password logs in
C17_Witness ==
    \E u \in users, email \in Emails, right \in Passwords, wrong \in Passwords :
        /\ UserByEmail(email) = {}
        /\ verify_password(right, u.password_hash)
        /\ ~verify_password(wrong, u.password_hash)
        /\ Respond(login(email, right).result) = Respond(login(u.email, wrong).result)
        /\ Respond(login(u.email, wrong).result).status = 401
        /\ Respond(login(u.email, right).result).status = 200

\* the name a task field has in a request body
ApiName(f) ==
    CASE f = "due_date" -> "dueDate"
      [] f = "is_completed" -> "isCompleted"
      [] OTHER -> f

\* the authorizations the gate accepts as user U
AuthorizationsOf(U) ==
    {a \in Authorizations : get_current_user(a) = [user_id |-> U]}

C19_EmptyUpdateRejected ==
    \A task \in tasks, body \in UpdateBodies :
        \A authorization \in AuthorizationsOf(task.user_id) :
            LET out == update_task(authorization, task.id, body)
            IN (\A f \in TaskFields : ApiName(f) \notin DOMAIN body) =>
                   /\ Respond(out.result) =
                          Response(400, "VALIDATION_ERROR", "At least one field required", {})
                   /\ out.tasks = tasks

\* the owner sends an empty body, and a body with an unknown key only, for
\* a task last modified before the current time
C19_Witness ==
    \E task \in tasks :
        \E authorization \in AuthorizationsOf(task.user_id) :
            /\ task.updated_at < now
            /\ Respond(update_task(authorization, task.id, <<>>).result).status = 400
            /\ Respond(update_task(authorization, task.id, [userId |-> "u2"]).result).status = 400
            /\ update_task(authorization, task.id, [userId |-> "u2"]).tasks = tasks

\* in every state: a task was created no later than it was last modified,
\* and neither lies in the future
TimestampsOrdered ==
    \A task \in tasks : task.created_at <= task.updated_at /\ task.updated_at <= now

\* in every step: a task that stays keeps its createdAt and its updatedAt
\* does not decrease; a task a step changes or adds has updatedAt equal to
\* the clock
TimestampsStep ==
    /\ \A task \in tasks, after \in tasks' :
           after.id = task.id =>
               /\ after.created_at = task.created_at
               /\ after.updated_at >= task.updated_at
    /\ \A after \in tasks' \ tasks : after.updated_at = now

\* C20 (timestamps): createdAt never changes after creation, after every
\* successful update updatedAt is the clock value of that update, and so
\* createdAt <= updatedAt in every reachable state and updatedAt never
\* decreases.
C20_Timestamps == []TimestampsOrdered /\ [][TimestampsStep]_vars

\* a task created at one time and updated at a later one
C20_Witness ==
    \E task \in tasks : task.created_at < task.updated_at /\ task.updated_at < now

\* the response to an unexpected fault
ServerError == Response(500, "SERVER_ERROR", "Something went wrong", {})

\* C21 (generic server error): a request whose handling raises anything
\* but an HTTPException, such as the persistence error at the commit of an
\* update, is answered 500 with code SERVER_ERROR and the generic message
\* and nothing else; nothing is committed; and no gated request is ever
\* answered 500 with any other body.
C21_GenericServerError ==
    \A authorization \in Authorizations :
        /\ \A task_id \in TaskIds, body \in UpdateBodies :
               LET out == update_task(authorization, task_id, body)
               IN (Raised(out.result) /\ out.result.raise # "HTTPException") =>
                      /\ Respond(out.result) = ServerError
                      /\ out.tasks = tasks
        /\ \A response \in GatedResponses(authorization) :
               response.status = 500 => response = ServerError

\* the owner of a stored task sends an update whose title is null: the
\* commit raises IntegrityError and the client gets the generic response
C21_Witness ==
    \E task \in tasks :
        \E authorization \in AuthorizationsOf(task.user_id) :
            LET out == update_task(authorization, task.id, [title |-> Null])
            IN /\ out.result = Exception("IntegrityError")
               /\ Respond(out.result) = ServerError
               /\ out.tasks = tasks

\* C22 (optional gate): get_current_user_optional yields no identity
\* exactly when no credential is presented, and every presented credential
\* without a usable subject (invalid, expired, or correctly signed but
\* without a subject) is rejected 401 UNAUTHORIZED.
C22_OptionalGate ==
    \A authorization \in Authorizations :
        LET identity == get_current_user_optional(authorization)
            usable ==
                /\ authorization # NoAuthorization
                /\ ~Falsy(verify_token(authorization.credentials))
                /\ HasSubject(verify_token(authorization.credentials))
        IN /\ identity = None <=> authorization = NoAuthorization
           /\ (authorization # NoAuthorization /\ ~usable) =>
                  /\ Raised(identity)
                  /\ Respond(identity).status = 401
                  /\ Respond(identity).error = "UNAUTHORIZED"

\* register requests that have returned
Registered == {r \in inflight : r.op = "register" /\ r.pc = "done"}

\* C23 (concurrent registration): however two register requests with the
\* same email interleave, at most one user row with that email exists,
\* exactly one of the two succeeds, and the other is answered 409
\* EMAIL_EXISTS, never 500 SERVER_ERROR.
C23_ConcurrentRegistration ==
    /\ \A u, v \in users : u.email = v.email => u = v
    /\ \A r \in Registered :
           \/ r.response.status = 201
           \/ r.response.status = 409 /\ r.response.error = "EMAIL_EXISTS"
    /\ \A r, q \in Registered :
           (r # q /\ r.args.email = q.args.email) =>
               Cardinality({x \in {r, q} : x.response.status = 201}) <= 1

\* the token a response of register or login carries
TokensIn(result) ==
    IF Raised(result) THEN {} ELSE {d.token : d \in Respond(result).data}

\* the token's subject is the primary key of a row of U with that email
SubjectOf(token, email, U) ==
    \E u \in U : u.email = email /\ token.payload.sub = u.id

\* C24 (token subject): every token register or login returns has as its
\* subject the primary key of the stored user with the presented email;
\* login returns a token exactly when a user with the email exists and
\* verify_password accepts the password against that user's hash; register
\* returns a token only together with the committed user row.
C24_TokenSubject ==
    /\ \A email \in Emails, password \in Passwords :
           LET out == login(email, password)
           IN /\ TokensIn(out.result) # {} <=>
                      \E u \in UserByEmail(email) :
                          verify_password(password, u.password_hash)
              /\ \A token \in TokensIn(out.result) : SubjectOf(token, email, users)
              /\ out.users = users
    /\ \A email \in Emails, password \in Passwords, salt \in Salts :
           LET out == register(email, password, salt)
           IN \A token \in TokensIn(out.result) :
                  /\ SubjectOf(token, email, out.users)
                  /\ ~SubjectOf(token, email, users)
    /\ \A token \in issued : SubjectOf(token, token.payload.email, users)

\* a registered user logs in: the token names their primary key; the
\* same email with another password gets no token
C24_Witness ==
    \E u \in users, password, other \in Passwords :
        /\ TokensIn(login(u.email, password).result) # {}
        /\ \A token \in TokensIn(login(u.email, password).result) :
               token.payload.sub = u.id
        /\ TokensIn(login(u.email, other).result) = {}
        /\ \E token \in issued : token.payload.sub = u.id

\* every task row has one owner, a row of users, and no two rows share
\* an id; no update_task request changes the id or the owner of a row
OwnerExists ==
    /\ \A task \in tasks : \E u \in users : u.id = task.user_id
    /\ \A t1, t2 \in tasks : t1.id = t2.id => t1 = t2
    /\ \A authorization \in Authorizations, task_id \in TaskIds, body \in UpdateBodies :
           LET out == update_task(authorization, task_id, body)
           IN /\ {t.id : t \in out.tasks} = {t.id : t \in tasks}
              /\ \A t \in tasks, updated \in out.tasks :
                     updated.id = t.id => updated.user_id = t.user_id

\* a row that is kept by a step keeps its owner
OwnerStep ==
    /\ users \subseteq users'
    /\ \A t \in tasks, updated \in tasks' :
           updated.id = t.id => updated.user_id = t.user_id

\* C25 (ownership is fixed): in every reachable state each task has
\* exactly one owner, an existing user, and the owner and the id of a task
\* never change after creation: no update_task request, whatever its body
\* carries, moves a task to another user.
C25_OwnerFixed == []OwnerExists /\ [][OwnerStep]_vars

\* a task that was updated is still with its owner, and the owner's
\* update whose body names another user as userId succeeds without moving
\* it
C25_Witness ==
    \E task \in tasks :
        \E authorization \in AuthorizationsOf(task.user_id), body \in UpdateBodies :
            LET out == update_task(authorization, task.id, body)
            IN /\ task.created_at < task.updated_at
               /\ "userId" \in DOMAIN body
               /\ body.userId # task.user_id
               /\ Respond(out.result).status = 200
               /\ \E updated \in out.tasks \ tasks :
                      updated.id = task.id /\ updated.user_id = task.user_id

\* ids of the tasks a delete_task request has deleted
Deleted ==
    {r.args.task_id : r \in {q \in inflight : /\ q.op = "delete_task"
                                              /\ q.pc = "done"
                                              /\ q.response.status = 200}}

\* a deleted task is in no table, in no listing, and every request for it
\* that passes the gate is answered 404
DeletedStaysDeleted ==
    \A task_id \in Deleted :
        /\ \A t \in tasks : t.id # task_id
        /\ \A authorization \in Authorizations :
               ~Raised(get_current_user(authorization)) =>
                   /\ \A shown \in Respond(get_tasks(authorization).result).data :
                          shown.id # task_id
                   /\ Respond(get_task(authorization, task_id).result) = NotFound
                   /\ Respond(delete_task(authorization, task_id).result) = NotFound
                   /\ task_select(authorization, task_id).result
                          = raise_not_found("Task not found")
                   /\ \A body \in UpdateBodies :
                          /\ Respond(update_task(authorization, task_id, body).result)
                                 = NotFound
                          /\ update_task(authorization, task_id, body).tasks = tasks

\* the step in which a delete_task returns removes its task and nothing
\* else, and no step brings a row back
DeleteStep ==
    /\ \A r \in inflight' \ inflight :
           (r.op = "delete_task" /\ r.pc = "done" /\ r.response.status = 200) =>
               tasks' = {t \in tasks : t.id # r.args.task_id}
    /\ {t.id : t \in tasks'} \subseteq {t.id : t \in tasks}

\* C26 (delete is permanent): once the owner's delete_task has succeeded
\* for a task, the task is absent from every later listing and every
\* later get, update or delete of it by anyone is answered 404 NOT_FOUND,
\* also when an update_task of the task was in flight during the delete;
\* and a delete changes no other task.
C26_DeletePermanent == []DeletedStaysDeleted /\ [][DeleteStep]_vars

\* an update_task loaded the task, a delete_task then removed it, and the
\* update's commit found no row: the task is gone and the other one is
\* untouched
C26_Witness ==
    \E r, q \in inflight :
        /\ r.op = "delete_task" /\ r.pc = "done" /\ r.response.status = 200
        /\ q.op = "update_task" /\ q.pc = "done"
        /\ q.rid < r.rid
        /\ \E t \in q.loaded : t.id = r.args.task_id
        /\ q.response = ServerError
        /\ \A t \in tasks : t.id # r.args.task_id
        /\ tasks # {}

\* update_task requests that have returned 200
Updated ==
    {r \in inflight : r.op = "update_task" /\ r.pc = "done" /\ r.response.status = 200}

\* the columns a request's body names
Named(r) == DOMAIN TaskUpdate(r.args.body)

\* the stored task carries what every returned update of it named, when
\* two of them named different fields
BothWritten ==
    \A r, q \in Updated :
        (r # q /\ r.args.task_id = q.args.task_id /\ Named(r) \cap Named(q) = {}) =>
            \A t \in tasks :
                t.id = r.args.task_id =>
                    /\ \A f \in Named(r) : t[f] = TaskUpdate(r.args.body)[f]
                    /\ \A f \in Named(q) : t[f] = TaskUpdate(q.args.body)[f]

\* the step in which an update_task returns 200 leaves every column the
\* request did not name, updated_at aside, as it was committed
UpdateStep ==
    \A r \in inflight' \ inflight :
        (r.op = "update_task" /\ r.pc = "done" /\ r.response.status = 200) =>
            \A t \in tasks, written \in tasks' :
                t.id = written.id =>
                    \A f \in DOMAIN t :
                        (written[f] # t[f]) =>
                            /\ t.id = r.args.task_id
                            /\ f \in Named(r) \cup {"updated_at"}

\* C27 (no lost update): however two successful update_task requests by
\* the owner on the same task that name disjoint fields interleave, the
\* stored task ends with both new values, and neither request writes back
\* a stale value of a field it did not name.
C27_NoLostUpdate == []BothWritten /\ [][UpdateStep]_vars

\* both requests loaded the task before either committed: the one that
\* committed last had loaded the old title, and the stored task has the
\* new title and the new isCompleted
C27_Witness ==
    \E r, q \in Updated, t \in tasks :
        /\ r.args.task_id = t.id /\ q.args.task_id = t.id
        /\ Named(r) = {"title"} /\ Named(q) = {"is_completed"}
        /\ r.loaded = q.loaded
        /\ \A old \in q.loaded : old.title # t.title /\ ~old.is_completed
        /\ t.title = TaskUpdate(r.args.body).title
        /\ t.is_completed

\* C28 (stored-task validity): every stored task has a title that is not
\* null and not empty and an isCompleted that is a boolean, and an
\* update_task whose body names title with an explicit null is answered
\* with a client error, 400 or 422 for the owner of the task, and never
\* with 500 SERVER_ERROR.
C28_StoredTaskValid ==
    /\ \A task \in tasks :
           /\ task.title \notin {Null, ""}
           /\ task.is_completed \in BOOLEAN
    /\ \A authorization \in Authorizations, task_id \in TaskIds, body \in UpdateBodies :
           ("title" \in DOMAIN body /\ body.title = Null) =>
               LET response == Respond(update_task(authorization, task_id, body).result)
               IN /\ response.status # 500
                  /\ (\E task \in tasks :
                          /\ task.id = task_id
                          /\ authorization \in AuthorizationsOf(task.user_id)) =>
                         response.status \in {400, 422}

\* the password a user registered with opens their account
OpensAccount(u, password) ==
    LET out == login(u.email, password)
    IN /\ Respond(out.result).status = 200
       /\ TokensIn(out.result) # {}
       /\ \A token \in TokensIn(out.result) : token.payload.sub = u.id

\* one row and one bcrypt hash per user; the registered password logs in;
\* what register and login answer carries id, email and token only
CredentialsStable ==
    /\ \A u, v \in users : (u.id = v.id \/ u.email = v.email) => u = v
    /\ \A u \in users :
           /\ IsBcryptHash(u.password_hash)
           /\ \A password \in Passwords, salt \in Salts :
                  u.password_hash = hash_password(password, salt) =>
                      OpensAccount(u, password)
    /\ \A email \in Emails, password \in Passwords :
           /\ \A d \in Respond(login(email, password).result).data :
                  DOMAIN d = {"user", "token"} /\ DOMAIN d.user = {"id", "email"}
           /\ \A salt \in Salts :
                  \A d \in Respond(register(email, password, salt).result).data :
                      DOMAIN d = {"user", "token"} /\ DOMAIN d.user = {"id", "email"}

\* no step changes or removes a user row
CredentialsStep == \A u \in users : u \in users'

\* C29 (credential stability): each user has exactly one password hash,
\* set at registration and never changed or removed by a later request,
\* so after register(E, P) has succeeded every later login(E, P) succeeds
\* with a token for the same subject, whatever requests come in between;
\* the stored hash is a bcrypt hash, never the plaintext, and no response
\* carries it.
C29_CredentialStability == []CredentialsStable /\ [][CredentialsStep]_vars

\* two users have registered and time has passed; a second registration
\* with the first one's email and another password was refused, and the
\* password each registered with still logs them in
C29_Witness ==
    /\ Cardinality(users) = 2
    /\ now > 0
    /\ \A u \in users :
           /\ \E password \in Passwords, salt \in Salts :
                  /\ u.password_hash = hash_password(password, salt)
                  /\ OpensAccount(u, password)
           /\ \E other \in Passwords, salt \in Salts :
                  /\ ~OpensAccount(u, other)
                  /\ Respond(register(u.email, other, salt).result).status = 409

====
